---- MODULE Spec2Model ----
(***************************************************************************)
(* latency-probe: the tick scheduler (scheduler.rs), the dispatch job and  *)
(* its per-target probe tasks (main.rs), the probe drivers' deadlines      *)
(* (prober/*.rs), the config poller (config.rs) and the metrics sink       *)
(* (metrics.rs), as one state machine over a monotonic clock.              *)
(***************************************************************************)
EXTENDS Integers, Sequences, FiniteSets, TLC

(* ------------------------------ bounds -------------------------------- *)
\* the scheduler loop is followed for MaxJobs iterations
MaxJobs == 2
\* the monotonic clock reads BootClock when the process starts
BootClock == 1
\* sleep_until returns at most MaxLate ms after its deadline
MaxLate == 1
\* the config poller wakes at most MaxPolls times
MaxPolls == 1

(* -------------------------- program constants ------------------------- *)
TcpTimeoutMs == 3000
EchoTimeoutMs == 1000
HttpClientTimeoutSecs == 5
HttpSendTimeoutSecs == 30

(* ------------------------------ data ---------------------------------- *)
\* prober/mod.rs: enum ProbeKind
ProbeKind == {"Icmp", "TcpConnect", "Http", "Echo"}

\* config.rs: struct TargetConfig (name, kind; host and port are carried
\* through to the driver unchanged and are left out of the record)
Target(n, k) == [name |-> n, kind |-> k]

\* the target lists a configuration file may hold
ListTcpHttp == << Target("a", "TcpConnect"), Target("b", "Http") >>
ListIcmp == << Target("a", "Icmp") >>
ListEcho == << Target("b", "Echo") >>

\* config.rs 21-30: struct ProbeConfig; the configurations the file (or
\* AppConfig) may hold
ProbeConfig ==
  { [probe_interval_ms |-> 2, default_timeout_ms |-> 500,
     enable_latency_history |-> TRUE, targets |-> ListTcpHttp],
    [probe_interval_ms |-> 1, default_timeout_ms |-> 2000,
     enable_latency_history |-> FALSE, targets |-> ListIcmp],
    [probe_interval_ms |-> 0, default_timeout_ms |-> 500,
     enable_latency_history |-> FALSE, targets |-> ListEcho] }

\* the durations a successful probe may measure: std::time::Duration
Latencies == { [secs |-> 0, nanos |-> 120000000], [secs |-> 1, nanos |-> 500000] }

Min(a, b) == IF a <= b THEN a ELSE b

VARIABLES
  now,        \* the monotonic clock (tokio::time::Instant::now), in ms
  config,     \* ConfigManager.config: Arc<RwLock<ProbeConfig>>
  targets,    \* ConfigManager.targets: Arc<RwLock<Vec<TargetConfig>>>
  cfgWrite,   \* TRUE while the poller holds the write guard of config
  pollPc,     \* the poller task: "sleep" | "loaded" | "targets"
  newCfg,     \* the poller's new_cfg
  polls,      \* how many times the poller has woken
  lastLoad,   \* the arm the poller's match took last: "none" | "ok" | "err"
  schedPc,    \* main/Scheduler::run: "new" | "run" | "loop" | "sleep"
  interval,   \* Scheduler.interval, in ms
  t0,         \* the instant run() started
  next,       \* run()'s local `next`
  jobs,       \* the spawned jobs, in launch order
  tasks,      \* per job, the probe tasks it spawned, in spawn order
  gauge,      \* LATENCY_GAUGE: (target, probe_type) -> value
  counter,    \* TIMEOUT_COUNTER: (target, probe_type) -> count
  histogram,  \* HISTOGRAM_ENABLED, and per (target, probe_type) the number
              \* of observations in HISTOGRAM_INSTANCE
  call        \* one driver call followed on its own (see CallSpec)

vars == << now, config, targets, cfgWrite, pollPc, newCfg, polls, lastLoad,
           schedPc, interval, t0, next, jobs, tasks, gauge, counter, histogram,
           call >>

cfgVars == << config, targets, cfgWrite, pollPc, newCfg, polls, lastLoad >>
schedVars == << schedPc, interval, t0, next >>
sinkVars == << gauge, counter, histogram >>

\* metrics.rs 31-54: initialize_metrics sets HISTOGRAM_ENABLED and, when
\* enabled, creates the empty histogram
InitializeMetrics(enable_latency_history) ==
  [enabled |-> enable_latency_history, count |-> [k \in {} |-> 0]]

\* no driver call is being followed
NoCall == [pc |-> "none"]

(* ------------------------------ Init ---------------------------------- *)
\* config.rs 151-153: config and targets both start from the loaded file
MainInit ==
  /\ now = BootClock
  /\ config \in ProbeConfig
  /\ targets = config.targets
  /\ cfgWrite = FALSE
  /\ pollPc = "sleep"
  /\ newCfg = config
  /\ polls = 0
  /\ lastLoad = "none"
  /\ schedPc = "new"
  /\ interval = 0
  /\ t0 = 0
  /\ next = 0
  /\ jobs = << >>
  /\ tasks = << >>
  /\ gauge = [k \in {} |-> 0]
  /\ counter = [k \in {} |-> 0]
  /\ histogram = InitializeMetrics(config.enable_latency_history)

Init == MainInit /\ call = NoCall

(* ------------------------------ clock --------------------------------- *)
\* time passes; once run() has started it is followed up to MaxLate past
\* the deadline the loop last slept until (sleep_until may return late, and
\* the loop may reach the spawn late)
Tick ==
  /\ schedPc \in {"loop", "sleep"}
  /\ now < next + MaxLate
  /\ now' = now + 1
  /\ UNCHANGED << call, cfgVars, schedVars, jobs, tasks, sinkVars >>

(* --------------------------- config poller ---------------------------- *)
\* a failed load that falls back to an empty configuration
PollLoadErrClears ==
  /\ pollPc = "sleep"
  /\ polls < MaxPolls
  /\ polls' = polls + 1
  /\ \/ /\ \E c \in ProbeConfig :
            newCfg' = c /\ pollPc' = "loaded" /\ lastLoad' = "ok"
        /\ UNCHANGED << config, targets >>
     \/ /\ lastLoad' = "err"
        /\ targets' = << >>
        /\ config' = [config EXCEPT !.targets = << >>]
        /\ UNCHANGED << newCfg, pollPc >>
  /\ UNCHANGED << call, now, cfgWrite, schedVars, jobs, tasks, sinkVars >>

\* config.rs 171-172 (local file) and 116-117 (AppConfig): the poller wakes
\* and loads; Ok(new_cfg) goes on to the compare, Err is logged and the loop
\* sleeps again (184-186, 129-131)
PollLoad ==
  /\ pollPc = "sleep"
  /\ polls < MaxPolls
  /\ polls' = polls + 1
  /\ \/ \E c \in ProbeConfig :
          newCfg' = c /\ pollPc' = "loaded" /\ lastLoad' = "ok"
     \/ lastLoad' = "err" /\ UNCHANGED << newCfg, pollPc >>
  /\ UNCHANGED << call, now, config, targets, cfgWrite, schedVars, jobs, tasks, sinkVars >>

\* the config guard dropped before the target list is written
PollWriteConfigDrops ==
  /\ pollPc = "loaded"
  /\ ~cfgWrite
  /\ IF config # newCfg
       THEN /\ config' = newCfg
            /\ cfgWrite' = FALSE
            /\ pollPc' = "targets"
       ELSE /\ UNCHANGED << config, cfgWrite >>
            /\ pollPc' = "sleep"
  /\ UNCHANGED << call, now, targets, newCfg, polls, lastLoad, schedVars, jobs, tasks, sinkVars >>

\* config.rs 175-178 (120-123): take the write guard of config, compare, and
\* store the new config; an equal config drops the guard at once
PollWriteConfig ==
  /\ pollPc = "loaded"
  /\ ~cfgWrite
  /\ IF config # newCfg
       THEN /\ config' = newCfg
            /\ cfgWrite' = TRUE
            /\ pollPc' = "targets"
       ELSE /\ UNCHANGED << config, cfgWrite >>
            /\ pollPc' = "sleep"
  /\ UNCHANGED << call, now, targets, newCfg, polls, lastLoad, schedVars, jobs, tasks, sinkVars >>

\* the write guard of targets granted only once no spawned Icmp task is
\* left waiting, as if such a task held a read guard of targets
PollWriteTargetsAfterTasks ==
  /\ pollPc = "targets"
  /\ \A j \in 1..Len(tasks) : \A p \in 1..Len(tasks[j]) :
       ~(tasks[j][p].pc = "spawned" /\ tasks[j][p].target.kind = "Icmp")
  /\ targets' = newCfg.targets
  /\ cfgWrite' = FALSE
  /\ pollPc' = "sleep"
  /\ UNCHANGED << call, now, config, newCfg, polls, lastLoad, schedVars, jobs, tasks, sinkVars >>

\* config.rs 180-182 (125-127): still holding the config guard, take the
\* write guard of targets, store the list, and drop both guards
PollWriteTargets ==
  /\ pollPc = "targets"
  /\ targets' = newCfg.targets
  /\ cfgWrite' = FALSE
  /\ pollPc' = "sleep"
  /\ UNCHANGED << call, now, config, newCfg, polls, lastLoad, schedVars, jobs, tasks, sinkVars >>

(* ----------------------------- scheduler ------------------------------ *)
\* scheduler.rs 10-14: Scheduler::new
SchedulerNew(interval_ms) == [ok |-> TRUE, interval |-> interval_ms]

\* main.rs 45-46: read probe_interval_ms under the read guard, construct
MainNewScheduler ==
  /\ schedPc = "new"
  /\ ~cfgWrite
  /\ LET r == SchedulerNew(config.probe_interval_ms) IN
       IF r.ok
         THEN schedPc' = "run" /\ interval' = r.interval
         ELSE schedPc' = "exit" /\ interval' = interval
  /\ UNCHANGED << call, now, cfgVars, t0, next, jobs, tasks, sinkVars >>

\* scheduler.rs 22: let mut next = Instant::now()
RunStart ==
  /\ schedPc = "run"
  /\ next' = now
  /\ t0' = now
  /\ schedPc' = "loop"
  /\ UNCHANGED << call, now, cfgVars, interval, jobs, tasks, sinkVars >>

\* the deadline recomputed from the current time instead
AdvanceFromNow(nxt, ivl, clock) == clock + ivl

\* the deadline advanced by the interval the shared config holds now
AdvanceByConfig(nxt, ivl, clock) == nxt + config.probe_interval_ms

\* scheduler.rs 24: next += self.interval
AdvanceDeadline(nxt, ivl, clock) == nxt + ivl

\* a job as spawned: it has not read the snapshot yet.  `tick` is the
\* deadline the loop slept until before launching it, `at` the clock value
\* of the launch
NewJob(tick, clock) ==
  [pc |-> "snap", snapshot |-> << >>, i |-> 1, tick |-> tick, at |-> clock]

\* no job is launched while an earlier one has not finished
SpawnJobUnlessBusy(js, tick, clock) ==
  IF \E k \in 1..Len(js) : js[k].pc # "done"
    THEN js
    ELSE Append(js, [pc |-> "snap", snapshot |-> << >>, i |-> 1,
                     tick |-> tick, at |-> clock])

\* scheduler.rs 26: tokio::spawn(job())
SpawnJob(js, tick, clock) == Append(js, NewJob(tick, clock))

\* scheduler.rs 24-26: one loop iteration up to the sleep
Launch ==
  /\ schedPc = "loop"
  /\ Len(jobs) < MaxJobs
  /\ next' = AdvanceDeadline(next, interval, now)
  /\ jobs' = SpawnJob(jobs, next, now)
  /\ tasks' = [k \in 1..Len(jobs') |-> IF k <= Len(tasks) THEN tasks[k] ELSE << >>]
  /\ schedPc' = "sleep"
  /\ UNCHANGED << call, now, cfgVars, interval, t0, sinkVars >>

\* a sleep that may return one ms before its deadline
SleepElapsedEarly(deadline, clock) == clock + 1 >= deadline

\* tokio sleep_until: completes once the deadline has been reached
SleepElapsed(deadline, clock) == clock >= deadline

\* the loop also waits for the probes of the jobs it launched to be recorded
WakeJoined ==
  /\ schedPc = "sleep"
  /\ now >= next
  /\ \A j \in 1..Len(jobs) :
       /\ jobs[j].pc = "done"
       /\ \A p \in 1..Len(tasks[j]) : tasks[j][p].pc = "done"
  /\ schedPc' = "loop"
  /\ UNCHANGED << call, now, cfgVars, interval, t0, next, jobs, tasks, sinkVars >>

\* scheduler.rs 27: sleep_until(next).await returns
Wake ==
  /\ schedPc = "sleep"
  /\ SleepElapsed(next, now)
  /\ schedPc' = "loop"
  /\ UNCHANGED << call, now, cfgVars, interval, t0, next, jobs, tasks, sinkVars >>

(* ---------------------------- dispatch job ---------------------------- *)
\* a loop that stops one element short
LoopPcShort(snapshot, i) == IF i < Len(snapshot) THEN "spawn" ELSE "done"

\* main.rs 56: the for loop over targets_snapshot goes on while an element
\* is left
LoopPc(snapshot, i) == IF i <= Len(snapshot) THEN "spawn" ELSE "done"

\* main.rs 55: { targets.read().await.clone() }; the read guard is held for
\* the copy only
JobSnapshot(j) ==
  /\ j \in 1..Len(jobs)
  /\ jobs[j].pc = "snap"
  /\ jobs' = [jobs EXCEPT ![j] =
                [@ EXCEPT !.snapshot = targets, !.pc = LoopPc(targets, 1)]]
  /\ UNCHANGED << call, now, cfgVars, schedVars, tasks, sinkVars >>

\* the element taken from the shared list instead of the snapshot
LoopItemLive(job, shared) ==
  IF job.i <= Len(shared) THEN shared[job.i] ELSE job.snapshot[job.i]

\* main.rs 56-57: the element the loop hands to the task (t, cloned as t2)
LoopItem(job, shared) == job.snapshot[job.i]

\* a probe task as spawned, before its first poll; idx is the position of
\* the loop when it was spawned
NewTask(i, t) ==
  [idx |-> i, target |-> t, pc |-> "spawned",
   timeout |-> [read |-> FALSE, ms |-> 0],
   driver |-> "none", deadline |-> [bounded |-> FALSE, ms |-> 0],
   attempts |-> 0, observes |-> 0, failures |-> 0, outcome |-> "none"]

\* an iteration that joins the tasks spawned so far before the next spawn
JobSpawnJoin(j) ==
  /\ j \in 1..Len(jobs)
  /\ jobs[j].pc = "spawn"
  /\ \A p \in 1..Len(tasks[j]) : tasks[j][p].pc \in {"done", "panicked"}
  /\ tasks' = [tasks EXCEPT ![j] =
                 Append(@, NewTask(jobs[j].i, LoopItem(jobs[j], targets)))]
  /\ jobs' = [jobs EXCEPT ![j] =
                [@ EXCEPT !.i = @ + 1, !.pc = LoopPc(jobs[j].snapshot, jobs[j].i + 1)]]
  /\ UNCHANGED << call, now, cfgVars, schedVars, sinkVars >>

\* an iteration that skips its target while a probe is still running
JobSpawnCapped(j) ==
  /\ j \in 1..Len(jobs)
  /\ jobs[j].pc = "spawn"
  /\ tasks' =
       IF \E k \in 1..Len(tasks) : \E p \in 1..Len(tasks[k]) :
            tasks[k][p].pc \in {"spawned", "probing"}
         THEN tasks
         ELSE [tasks EXCEPT ![j] =
                 Append(@, NewTask(jobs[j].i, LoopItem(jobs[j], targets)))]
  /\ jobs' = [jobs EXCEPT ![j] =
                [@ EXCEPT !.i = @ + 1, !.pc = LoopPc(jobs[j].snapshot, jobs[j].i + 1)]]
  /\ UNCHANGED << call, now, cfgVars, schedVars, sinkVars >>

\* main.rs 56-59: one iteration of the loop: clone the target, spawn its task
JobSpawn(j) ==
  /\ j \in 1..Len(jobs)
  /\ jobs[j].pc = "spawn"
  /\ tasks' = [tasks EXCEPT ![j] =
                 Append(@, NewTask(jobs[j].i, LoopItem(jobs[j], targets)))]
  /\ jobs' = [jobs EXCEPT ![j] =
                [@ EXCEPT !.i = @ + 1, !.pc = LoopPc(jobs[j].snapshot, jobs[j].i + 1)]]
  /\ UNCHANGED << call, now, cfgVars, schedVars, sinkVars >>

(* ---------------------------- probe drivers --------------------------- *)
\* prober/icmp.rs 6-18: _timeout_ms is not used; ping() is awaited as is
ProbeIcmpDeadline(timeout_ms) == [bounded |-> FALSE, ms |-> 0]

\* prober/tcp_connect.rs 9
ProbeTcpDeadline == [bounded |-> TRUE, ms |-> TcpTimeoutMs]

\* prober/http.rs 6-11: the client's timeout and the timeout around send()
ProbeHttpDeadline ==
  [bounded |-> TRUE, ms |-> Min(HttpClientTimeoutSecs * 1000, HttpSendTimeoutSecs * 1000)]

\* prober/echo.rs 14
ProbeEchoDeadline == [bounded |-> TRUE, ms |-> EchoTimeoutMs]

\* main.rs 60-114: the match on t2.kind: which driver is called, whether the
\* config's default_timeout_ms is read first, and the deadline the driver
\* then applies
DriverCall(kind, default_timeout_ms) ==
  CASE kind = "Icmp" ->
         [driver |-> "probe_icmp",
          timeout |-> [read |-> TRUE, ms |-> default_timeout_ms],
          deadline |-> ProbeIcmpDeadline(default_timeout_ms)]
    [] kind = "TcpConnect" ->
         [driver |-> "probe_tcp",
          timeout |-> [read |-> FALSE, ms |-> 0],
          deadline |-> ProbeTcpDeadline]
    [] kind = "Http" ->
         [driver |-> "probe_http",
          timeout |-> [read |-> FALSE, ms |-> 0],
          deadline |-> ProbeHttpDeadline]
    [] kind = "Echo" ->
         [driver |-> "probe_echo",
          timeout |-> [read |-> FALSE, ms |-> 0],
          deadline |-> ProbeEchoDeadline]

\* main.rs 70, 82, 95, 107: the probe_type passed to observe_latency
ObserveLabel(kind) ==
  CASE kind = "Icmp" -> "icmp"
    [] kind = "TcpConnect" -> "tcp_connect"
    [] kind = "Http" -> "http"
    [] kind = "Echo" -> "echo"

\* the failure label cut down to the protocol
TimeoutLabelShort(kind) ==
  CASE kind = "Icmp" -> "icmp"
    [] kind = "TcpConnect" -> "tcp"
    [] kind = "Http" -> "http"
    [] kind = "Echo" -> "echo"

\* main.rs 74, 86, 99, 111: the probe_type passed to inc_timeout
TimeoutLabel(kind) ==
  CASE kind = "Icmp" -> "icmp"
    [] kind = "TcpConnect" -> "tcp_connect"
    [] kind = "Http" -> "http"
    [] kind = "Echo" -> "echo"

(* ---------------------------- metrics sink ---------------------------- *)
\* main.rs 70: latency.as_secs_f64() * 1000.0, kept to three decimals
\* (the value is in thousandths of a millisecond)
LatencyMs(d) == d.secs * 1000000 + d.nanos \div 1000

\* a gauge write that ignores the probe_type label: every pair of the
\* target is set
ObserveLatencyByTarget(g, target, probe_type, latency_ms) ==
  [k \in DOMAIN g \cup {<< target, probe_type >>} |->
     IF k[1] = target THEN latency_ms ELSE g[k]]

\* metrics.rs 77-87: with HISTOGRAM_ENABLED the latency is also observed in
\* the pair's histogram
ObserveHistogram(h, target, probe_type, latency_ms) ==
  IF h.enabled
    THEN [h EXCEPT !.count =
            [k \in DOMAIN h.count \cup {<< target, probe_type >>} |->
               IF k = << target, probe_type >>
                 THEN (IF k \in DOMAIN h.count THEN h.count[k] ELSE 0) + 1
                 ELSE h.count[k]]]
    ELSE h

\* metrics.rs 71-75: LATENCY_GAUGE.with_label_values(..).set(latency_ms)
ObserveLatency(g, target, probe_type, latency_ms) ==
  [k \in DOMAIN g \cup {<< target, probe_type >>} |->
     IF k = << target, probe_type >> THEN latency_ms ELSE g[k]]

\* an increment that stores 1 over whatever the counter held
IncTimeoutLost(c, target, probe_type) ==
  [k \in DOMAIN c \cup {<< target, probe_type >>} |->
     IF k = << target, probe_type >> THEN 1 ELSE c[k]]

\* metrics.rs 90-94: TIMEOUT_COUNTER.with_label_values(..).inc()
IncTimeout(c, target, probe_type) ==
  [k \in DOMAIN c \cup {<< target, probe_type >>} |->
     IF k = << target, probe_type >>
       THEN (IF k \in DOMAIN c THEN c[k] ELSE 0) + 1
       ELSE c[k]]

(* ----------------------------- probe task ----------------------------- *)
\* a task that runs only after the task spawned before it was recorded
RunnableInTurn(j, p) ==
  /\ tasks[j][p].pc = "spawned"
  /\ p > 1 => tasks[j][p - 1].pc = "done"
  /\ (p = 1 /\ j > 1) =>
       \A q \in 1..Len(tasks[j - 1]) : tasks[j - 1][q].pc = "done"

\* main.rs 59: tokio::spawn hands the task to the worker pool; it runs as
\* soon as it is spawned
Runnable(j, p) == tasks[j][p].pc = "spawned"

\* main.rs 60-67, 79, 91-92, 104: the task's first poll up to the driver's
\* first await; the Icmp arm reads default_timeout_ms under the read guard
ProbeBegin(j, p) ==
  /\ Runnable(j, p)
  /\ tasks[j][p].target.kind = "Icmp" => ~cfgWrite
  /\ LET c == DriverCall(tasks[j][p].target.kind, config.default_timeout_ms) IN
       tasks' = [tasks EXCEPT ![j][p] =
                   [@ EXCEPT !.pc = "probing",
                             !.timeout = c.timeout,
                             !.driver = c.driver,
                             !.deadline = c.deadline,
                             !.attempts = @ + 1]]
  /\ UNCHANGED << call, now, cfgVars, schedVars, jobs, sinkVars >>

\* main.rs 68-71, 80-83, 93-96, 105-108: the driver returned Ok(latency)
ProbeOk(j, p, d) ==
  /\ tasks[j][p].pc = "probing"
  /\ gauge' = ObserveLatency(gauge, tasks[j][p].target.name,
                             ObserveLabel(tasks[j][p].target.kind), LatencyMs(d))
  /\ histogram' = ObserveHistogram(histogram, tasks[j][p].target.name,
                                   ObserveLabel(tasks[j][p].target.kind),
                                   LatencyMs(d))
  /\ tasks' = [tasks EXCEPT ![j][p] =
                 [@ EXCEPT !.pc = "done", !.outcome = "ok", !.observes = @ + 1]]
  /\ UNCHANGED << call, now, cfgVars, schedVars, jobs, counter >>

\* a failed probe that is counted and then tried once more
ProbeErrRetry(j, p) ==
  /\ tasks[j][p].pc = "probing"
  /\ counter' = IncTimeout(counter, tasks[j][p].target.name,
                           TimeoutLabel(tasks[j][p].target.kind))
  /\ tasks' = [tasks EXCEPT ![j][p] =
                 IF @.attempts < 2
                   THEN [@ EXCEPT !.attempts = @ + 1, !.failures = @ + 1]
                   ELSE [@ EXCEPT !.pc = "done", !.outcome = "err", !.failures = @ + 1]]
  /\ UNCHANGED << call, now, cfgVars, schedVars, jobs, gauge, histogram >>

\* main.rs 72-75, 84-87, 97-100, 109-112: the driver returned Err(e)
ProbeErr(j, p) ==
  /\ tasks[j][p].pc = "probing"
  /\ counter' = IncTimeout(counter, tasks[j][p].target.name,
                           TimeoutLabel(tasks[j][p].target.kind))
  /\ tasks' = [tasks EXCEPT ![j][p] =
                 [@ EXCEPT !.pc = "done", !.outcome = "err", !.failures = @ + 1]]
  /\ UNCHANGED << call, now, cfgVars, schedVars, jobs, gauge, histogram >>

\* main.rs 59: a panic inside the task unwinds that task alone; tokio keeps
\* it in the dropped JoinHandle
ProbePanic(j, p) ==
  /\ tasks[j][p].pc = "probing"
  /\ tasks' = [tasks EXCEPT ![j][p] =
                 [@ EXCEPT !.pc = "panicked", !.outcome = "panic"]]
  /\ UNCHANGED << call, now, cfgVars, schedVars, jobs, sinkVars >>

(* --------------------------- specification ---------------------------- *)
PollerStep == PollLoad \/ PollWriteConfig \/ PollWriteTargets
SchedStep == MainNewScheduler \/ RunStart \/ Launch \/ Wake
JobStep == \E j \in 1..Len(jobs) : JobSnapshot(j) \/ JobSpawn(j)
ProbeStep ==
  \E j \in 1..Len(tasks) : \E p \in 1..Len(tasks[j]) :
    \/ ProbeBegin(j, p)
    \/ \E d \in Latencies : ProbeOk(j, p, d)
    \/ ProbeErr(j, p)
    \/ ProbePanic(j, p)

Next == Tick \/ PollerStep \/ SchedStep \/ JobStep \/ ProbeStep

Spec == Init /\ [][Next]_vars

\* the tokio runtime polls every runnable task, the clock advances, and a
\* held guard is dropped; when the poller wakes and whether a load succeeds
\* is left open
FairSpec ==
  /\ Spec
  /\ WF_vars(Tick)
  /\ WF_vars(SchedStep)
  /\ WF_vars(JobStep)
  /\ WF_vars(ProbeStep)
  /\ WF_vars(PollWriteConfig \/ PollWriteTargets)

(* --------------------------- one driver call -------------------------- *)
\* A driver call as a function of how long each phase of it takes: pre is
\* the time until the socket is set up and connected (name resolution
\* included), io the wait for the peer's answer, body the time to read the
\* response body, error whether the peer answers with an error. A duration
\* is in ms; Never is a phase that does not complete.
Never == 0 - 1
PreMs == {10, 4000, Never}
IoMs == {100, 2000, 10000, 40000, Never}
BodyMs == {100, 10000}

Exceeds(d, limit) == d = Never \/ d > limit
Plus(a, b) == IF a = Never \/ b = Never THEN Never ELSE a + b

\* Ok(duration) or Err(_) handed back after `ends` ms
Returned(outcome, latency, ends) ==
  [outcome |-> outcome, latency |-> latency, ends |-> ends]
\* the awaited future never resolves
Pending == [outcome |-> "pending", latency |-> 0, ends |-> Never]

\* icmp.rs 6-18: the resolution (8) and the ping (15) are awaited as they
\* are, _timeout_ms is not used; the latency is the one ping reports
ProbeIcmp(in) ==
  IF in.pre = Never THEN Pending
  ELSE IF in.error THEN Returned("err", 0, Plus(in.pre, in.io))
  ELSE Returned("ok", in.io, Plus(in.pre, in.io))

\* tcp_connect.rs 5-13: the whole connect, resolution included, is under
\* timeout(3000 ms); start is taken before it
ProbeTcp(in) ==
  LET connect == Plus(in.pre, in.io)
  IN  IF Exceeds(connect, TcpTimeoutMs) THEN Returned("err", 0, TcpTimeoutMs)
      ELSE IF in.error THEN Returned("err", 0, connect)
      ELSE Returned("ok", connect, connect)

\* http.rs 5-16: the client carries a 5 s timeout that runs from the start
\* of connecting until the body is finished (6-8); send() is also under
\* timeout(30 s) (10-11); text() reads the body (13); start is taken
\* before the send (9)
ProbeHttp(in) ==
  LET client == HttpClientTimeoutSecs * 1000
      outer == HttpSendTimeoutSecs * 1000
      send == Plus(in.pre, in.io)
      total == Plus(send, in.body)
  IN  IF Exceeds(send, Min(client, outer))
        THEN Returned("err", 0, Min(client, outer))
      ELSE IF in.error THEN Returned("err", 0, send)
      ELSE IF Exceeds(total, client) THEN Returned("err", 0, client)
      ELSE Returned("ok", total, total)

\* echo.rs 5-17: bind (7), connect (8) and send (11) are awaited as they
\* are; only recv is under timeout(1000 ms) (13-14); start is taken after
\* the connect (9)
ProbeEcho(in) ==
  IF in.pre = Never THEN Pending
  ELSE IF Exceeds(in.io, EchoTimeoutMs)
    THEN Returned("err", 0, in.pre + EchoTimeoutMs)
  ELSE IF in.error THEN Returned("err", 0, in.pre + in.io)
  ELSE Returned("ok", in.io, in.pre + in.io)

\* main.rs 60-115: the driver the match picks
DriverResult(in) ==
  CASE in.kind = "Icmp" -> ProbeIcmp(in)
    [] in.kind = "TcpConnect" -> ProbeTcp(in)
    [] in.kind = "Http" -> ProbeHttp(in)
    [] in.kind = "Echo" -> ProbeEcho(in)

\* the calls followed: every kind with every timing; how long ping waits
\* for a late reply is decided inside surge_ping, so the Icmp calls followed
\* are those whose reply comes at once
CallInputs ==
  { in \in [kind : ProbeKind, pre : PreMs, io : IoMs, body : BodyMs,
            error : BOOLEAN] :
      in.kind = "Icmp" => in.io = 100 }

\* a probe task has reached its driver call; the timeout it read is the
\* shared config's (main.rs 63-65)
CallInit ==
  /\ MainInit
  /\ call \in { [pc |-> "called", in |-> in,
                  timeout_ms |-> config.default_timeout_ms,
                  result |-> Pending] : in \in CallInputs }

\* the awaited driver hands its result back, if it ever does
CallReturn ==
  /\ call.pc = "called"
  /\ DriverResult(call.in).outcome # "pending"
  /\ call' = [call EXCEPT !.pc = "returned", !.result = DriverResult(call.in)]
  /\ UNCHANGED << now, cfgVars, schedVars, jobs, tasks, sinkVars >>

CallNext == CallReturn

CallSpec == CallInit /\ [][CallNext]_vars

(* ------------------------------ claims -------------------------------- *)
MaxTargets == Len(ListTcpHttp)
Started == schedPc \in {"loop", "sleep"}
TaskIds == { << j, p >> \in (1..Len(tasks)) \X (1..MaxTargets) : p <= Len(tasks[j]) }
InFlight(j) ==
  \/ jobs[j].pc # "done"
  \/ \E p \in 1..Len(tasks[j]) : tasks[j][p].pc \in {"spawned", "probing"}

\* C1: the k-th job (k = 0, 1, ...) is launched for the scheduled instant
\* t0 + k * interval, and the deadline the loop sleeps until is the scheduled
\* instant of the next job: scheduled instants are spaced by exactly one
\* interval.  A launch trails its scheduled instant only by the lateness of
\* the loop's own wake-up, however long the launched jobs run.
C1_TicksOnGrid ==
  Started =>
    /\ \A k \in 1..Len(jobs) :
         /\ jobs[k].tick = t0 + (k - 1) * interval
         /\ jobs[k].at - jobs[k].tick \in 0..MaxLate
    /\ schedPc = "sleep" => next = t0 + Len(jobs) * interval

\* C1 witness: a second job launched on the grid while the first job, which
\* was launched late, still has a probe in flight.
C1_Witness ==
  /\ interval > 0
  /\ Len(jobs) = 2
  /\ jobs[1].at > t0
  /\ InFlight(1)
  /\ jobs[2].tick = t0 + interval

\* C2 (as claimed): every job is launched at least one interval after the
\* launch of the job before it.
C2_MinSpacing ==
  \A k \in 2..Len(jobs) : jobs[k].at >= jobs[k - 1].at + interval

\* C2 (amended): job N is launched no earlier than its own scheduled
\* instant, which is the scheduled instant of job N-1 plus the interval.
C2_NotBeforeDeadline ==
  \A k \in 2..Len(jobs) : jobs[k].at >= jobs[k - 1].tick + interval

\* C2 witness: the loop reached the first launch late and the second job
\* followed it by less than one interval.
C2_Witness ==
  /\ Len(jobs) = 2
  /\ jobs[1].at > jobs[1].tick
  /\ jobs[2].at - jobs[1].at < interval
  /\ jobs[2].at >= jobs[1].tick + interval

\* C3: no tick is skipped or merged: when the deadline has been advanced k
\* times, exactly k jobs have been launched, each with its own task list,
\* also while earlier jobs are still running.
C3_OneJobPerAdvance ==
  /\ Len(tasks) = Len(jobs)
  /\ (schedPc = "sleep" /\ interval > 0) => next - t0 = Len(jobs) * interval
  /\ (schedPc = "loop" /\ interval > 0) => next - t0 = Len(jobs) * interval
  /\ schedPc = "sleep" => Len(jobs) >= 1

\* C3 witness: the deadline was advanced twice and two jobs exist while the
\* first is still running.
C3_Witness ==
  /\ interval > 0
  /\ next = t0 + 2 * interval
  /\ Len(jobs) = 2
  /\ InFlight(1)

\* C4: every tick is eventually launched, whatever becomes of the jobs and
\* probe tasks of earlier ticks.
C4_EveryTickLaunched == <>(Len(jobs) = MaxJobs)

\* C4 witness: the last job was launched although a probe task of an earlier
\* job panicked and another is still in flight.
C4_Witness ==
  /\ Len(jobs) = MaxJobs
  /\ \E p \in 1..Len(tasks[1]) : tasks[1][p].pc = "panicked"
  /\ \E p \in 1..Len(tasks[1]) : tasks[1][p].pc \in {"spawned", "probing"}

\* C5 (as claimed): a Scheduler is only ever constructed, and run() only
\* ever entered, with a positive interval.
C5_PositiveInterval == schedPc \in {"run", "loop", "sleep"} => interval > 0

\* C6: a job that has finished its loop over a snapshot of K targets has
\* spawned exactly K probe tasks, the i-th for the i-th target, and each task
\* that has started called the driver of its target's kind.
C6_OneTaskPerTarget ==
  \A j \in 1..Len(jobs) :
    jobs[j].pc = "done" =>
      /\ Len(tasks[j]) = Len(jobs[j].snapshot)
      /\ \A i \in 1..Len(jobs[j].snapshot) :
           /\ tasks[j][i].idx = i
           /\ tasks[j][i].target = jobs[j].snapshot[i]
           /\ tasks[j][i].pc # "spawned" =>
                tasks[j][i].driver =
                  CASE jobs[j].snapshot[i].kind = "Icmp" -> "probe_icmp"
                    [] jobs[j].snapshot[i].kind = "TcpConnect" -> "probe_tcp"
                    [] jobs[j].snapshot[i].kind = "Http" -> "probe_http"
                    [] jobs[j].snapshot[i].kind = "Echo" -> "probe_echo"

\* C6 witness: a finished job over two targets whose two tasks have both
\* called their drivers.
C6_Witness ==
  \E j \in 1..Len(jobs) :
    /\ jobs[j].pc = "done"
    /\ Len(jobs[j].snapshot) = 2
    /\ Len(tasks[j]) = 2
    /\ tasks[j][1].driver = "probe_tcp"
    /\ tasks[j][2].driver = "probe_http"

\* C7: failure isolation: every target of every snapshot gets its probe task
\* run to its end, with a successful or failed outcome recorded in the sink,
\* whatever happens to the other tasks of the same or of other ticks: in the
\* end every tick has been dispatched and every one of its tasks has ended.
C7_Recorded(j, i) ==
  /\ i <= Len(tasks[j])
  /\ tasks[j][i].pc \in {"done", "panicked"}
  /\ tasks[j][i].outcome = "ok" =>
       << tasks[j][i].target.name, ObserveLabel(tasks[j][i].target.kind) >> \in DOMAIN gauge
  /\ tasks[j][i].outcome = "err" =>
       << tasks[j][i].target.name, TimeoutLabel(tasks[j][i].target.kind) >> \in DOMAIN counter
C7_AllRecorded ==
  /\ Len(jobs) = MaxJobs
  /\ \A j \in 1..Len(jobs) :
       /\ jobs[j].pc = "done"
       /\ \A i \in 1..Len(jobs[j].snapshot) : C7_Recorded(j, i)
C7_FailureIsolation == <>C7_AllRecorded

\* C7 witness: the first task of a tick panicked, and the second task of the
\* same tick and a task of the next tick ran to their end and were recorded.
C7_Witness ==
  /\ Len(tasks) = 2
  /\ Len(tasks[1]) = 2
  /\ tasks[1][1].pc = "panicked"
  /\ tasks[1][2].pc = "done"
  /\ Len(tasks[2]) >= 1
  /\ tasks[2][1].pc = "done"

\* C8: every probe task makes one driver attempt and at most one sink call:
\* a success is one observe_latency and no inc_timeout, a failure one
\* inc_timeout and no observe_latency; the counters of the sink add up to the
\* number of failed tasks.
RECURSIVE SumOver(_, _)
SumOver(f, keys) ==
  IF keys = {} THEN 0
  ELSE LET k == CHOOSE x \in keys : TRUE IN f[k] + SumOver(f, keys \ {k})
C8_OneAttemptOneRecord ==
  /\ \A id \in TaskIds :
       LET t == tasks[id[1]][id[2]] IN
         /\ t.attempts = (IF t.pc = "spawned" THEN 0 ELSE 1)
         /\ t.observes = (IF t.outcome = "ok" THEN 1 ELSE 0)
         /\ t.failures = (IF t.outcome = "err" THEN 1 ELSE 0)
  /\ SumOver(counter, DOMAIN counter) =
       Cardinality({ id \in TaskIds : tasks[id[1]][id[2]].outcome = "err" })

\* C8 witness: one task of a tick succeeded and the other failed.
C8_Witness ==
  \E j \in 1..Len(tasks) :
    /\ Len(tasks[j]) = 2
    /\ tasks[j][1].outcome = "err"
    /\ tasks[j][2].outcome = "ok"

\* C9: snapshot isolation: every probe task of a tick holds the target its
\* tick's snapshot held at the task's position, and the snapshot is one of
\* the lists a loaded configuration held, also when the shared list was
\* replaced before the task was spawned.
C9_SnapshotIsolation ==
  \A j \in 1..Len(jobs) :
    /\ jobs[j].pc # "snap" => \E c \in ProbeConfig : jobs[j].snapshot = c.targets
    /\ \A p \in 1..Len(tasks[j]) :
         /\ tasks[j][p].idx \in 1..Len(jobs[j].snapshot)
         /\ tasks[j][p].target = jobs[j].snapshot[tasks[j][p].idx]

\* C9 witness: the poller replaced the shared list after the first tick
\* read it: a task of that tick has called its driver for a target the
\* shared list no longer holds, and the next tick has read the new list.
C9_Witness ==
  /\ Len(jobs) = 2
  /\ jobs[1].pc = "done"
  /\ \E p \in 1..Len(tasks[1]) :
       /\ tasks[1][p].pc # "spawned"
       /\ \A i \in 1..Len(targets) : targets[i] # tasks[1][p].target
  /\ jobs[2].pc # "snap"
  /\ jobs[2].snapshot = targets

\* C10 (as claimed): every probe task that has called its driver read the
\* configuration's default timeout, and the driver's deadline is that value.
C10_ConfigTimeoutIsDeadline ==
  \A id \in TaskIds :
    LET t == tasks[id[1]][id[2]] IN
      t.pc # "spawned" =>
        /\ t.timeout.read
        /\ t.deadline.bounded
        /\ t.deadline.ms = t.timeout.ms

\* C11: every driver call is over by its deadline (the timeout passed to
\* the Icmp driver, 3000 ms for TcpConnect, 30 s for Http, 1000 ms for
\* Echo), whatever phase takes long, and a call whose reply never arrives
\* ends as a failure
C11_Deadline(kind, timeout_ms) ==
  CASE kind = "Icmp" -> timeout_ms
    [] kind = "TcpConnect" -> TcpTimeoutMs
    [] kind = "Http" -> HttpSendTimeoutSecs * 1000
    [] kind = "Echo" -> EchoTimeoutMs
C11_RespectsDeadline ==
  call.pc = "returned" =>
    /\ call.result.ends <= C11_Deadline(call.in.kind, call.timeout_ms)
    /\ call.in.io = Never => call.result.outcome = "err"

\* C16: an Http call succeeds exactly when connecting took at most 5 s, the
\* whole request up to the end of the body at most 30 s, and no request
\* error occurred
C16_HttpTwoBounds ==
  (call.pc = "returned" /\ call.in.kind = "Http") =>
    LET total == Plus(Plus(call.in.pre, call.in.io), call.in.body)
    IN  (call.result.outcome = "ok")
          <=> /\ ~Exceeds(call.in.pre, HttpClientTimeoutSecs * 1000)
              /\ ~Exceeds(total, HttpSendTimeoutSecs * 1000)
              /\ ~call.in.error

\* C12: the counter of a (target, probe_type) pair equals the number of
\* inc_timeout calls made for that pair, however the calling tasks of the
\* overlapping ticks interleave: no increment is lost, none counted twice
C12_Calls(key) ==
  { id \in TaskIds :
      LET t == tasks[id[1]][id[2]] IN
        /\ t.failures = 1
        /\ << t.target.name, TimeoutLabel(t.target.kind) >> = key }
C12_NoLostIncrement ==
  /\ \A key \in DOMAIN counter : counter[key] = Cardinality(C12_Calls(key))
  /\ \A id \in TaskIds :
       LET t == tasks[id[1]][id[2]] IN
         t.failures = 1 =>
           << t.target.name, TimeoutLabel(t.target.kind) >> \in DOMAIN counter

\* C12 witness: tasks of two ticks have both incremented the same pair, and
\* another pair has been incremented as well.
C12_Witness ==
  \E key \in DOMAIN counter :
    /\ counter[key] = MaxJobs
    /\ \E other \in DOMAIN counter : other # key

\* C13: the probe_type label and the driver are fixed by the kind alone
\* (Icmp "icmp", TcpConnect "tcp_connect", Http "http", Echo "echo"), the
\* same label for a success and for a failure, and the target label is the
\* target's name
C13_Label(kind) ==
  CASE kind = "Icmp" -> "icmp"
    [] kind = "TcpConnect" -> "tcp_connect"
    [] kind = "Http" -> "http"
    [] kind = "Echo" -> "echo"
C13_Driver(kind) ==
  CASE kind = "Icmp" -> "probe_icmp"
    [] kind = "TcpConnect" -> "probe_tcp"
    [] kind = "Http" -> "probe_http"
    [] kind = "Echo" -> "probe_echo"
C13_Keys(outcome) ==
  { << tasks[id[1]][id[2]].target.name,
       C13_Label(tasks[id[1]][id[2]].target.kind) >> :
      id \in { i \in TaskIds : tasks[i[1]][i[2]].outcome = outcome } }
C13_LabelByKind ==
  /\ DOMAIN gauge = C13_Keys("ok")
  /\ DOMAIN counter = C13_Keys("err")
  /\ \A id \in TaskIds :
       LET t == tasks[id[1]][id[2]] IN
         t.pc # "spawned" => t.driver = C13_Driver(t.target.kind)

\* C13 witness: a success and a failure of TcpConnect probes of one target
\* are recorded under the same pair, next to a pair of another kind.
C13_Witness ==
  \E key \in DOMAIN gauge \cap DOMAIN counter :
    /\ key[2] = "tcp_connect"
    /\ \E other \in DOMAIN gauge \cup DOMAIN counter : other[2] = "http"

\* C14: a refresh whose load fails changes neither the shared config nor
\* the shared target list and holds no lock afterwards; the poller goes
\* back to its sleep, so later ticks read the last loaded targets and
\* timeout
C14_FailedStep == polls' # polls /\ lastLoad' = "err"
C14_FailedRefreshKeepsLast ==
  [][C14_FailedStep =>
       /\ config' = config
       /\ targets' = targets
       /\ cfgWrite' = FALSE
       /\ pollPc' = "sleep"]_vars

\* C14 witness: the last refresh failed, and a tick has since taken its
\* snapshot of the list loaded at start and spawned a task per target.
C14_Witness ==
  /\ lastLoad = "err"
  /\ pollPc = "sleep"
  /\ \E j \in 1..Len(jobs) :
       /\ jobs[j].pc = "done"
       /\ jobs[j].snapshot = targets
       /\ targets = config.targets
       /\ Len(tasks[j]) = Len(targets)

\* C15: the dispatch job never waits for a probe: whenever it stands at a
\* loop iteration the spawn can go ahead, whatever state the tasks spawned
\* before (by it or by an earlier tick) are in, and it is done right after
\* its last spawn
C15_FireAndForget ==
  \A j \in 1..Len(jobs) :
    /\ jobs[j].pc = "spawn" => ENABLED JobSpawn(j)
    /\ jobs[j].pc = "done" => jobs[j].i = Len(jobs[j].snapshot) + 1

\* C15 witness: the job of the first tick is done while one of its probes
\* is running and the other has not started, and the job of the second tick
\* is dispatching.
C15_Witness ==
  /\ Len(jobs) = MaxJobs
  /\ jobs[1].pc = "done"
  /\ Len(tasks[1]) = MaxTargets
  /\ tasks[1][1].pc = "spawned"
  /\ tasks[1][2].pc = "probing"
  /\ jobs[MaxJobs].pc = "spawn"
  /\ Len(tasks[MaxJobs]) = 1

\* C17: nothing caps the probes in flight: every loop iteration a job has
\* run has added one task, however many tasks were still running, so the
\* tasks in flight are all the tasks dispatched less those that ended
C17_InFlight ==
  Cardinality({ id \in TaskIds :
                  tasks[id[1]][id[2]].pc \in {"spawned", "probing"} })
C17_Ended ==
  Cardinality({ id \in TaskIds :
                  tasks[id[1]][id[2]].pc \in {"done", "panicked"} })
RECURSIVE C17_Dispatched(_)
C17_Dispatched(j) ==
  IF j = 0 THEN 0
  ELSE (IF jobs[j].pc = "snap" THEN 0 ELSE jobs[j].i - 1) + C17_Dispatched(j - 1)
C17_NoCap == C17_InFlight = C17_Dispatched(Len(jobs)) - C17_Ended

\* C17 witness: the probes of every tick so far are all in flight at once.
C17_Witness ==
  /\ Len(jobs) = MaxJobs
  /\ \A j \in 1..Len(jobs) : jobs[j].pc = "done"
  /\ C17_Ended = 0
  /\ C17_InFlight = MaxJobs * MaxTargets

\* C18: the lock protocol cannot deadlock: the only guard held across a
\* wait is the poller's write guard of config, and its holder can always
\* go on to write targets and drop it; the job's read of targets is never
\* blocked; whoever waits for config (the poller's write, main's read, an
\* Icmp task's read) can proceed as soon as that guard is dropped
C18_DeadlockFree ==
  /\ cfgWrite => (pollPc = "targets" /\ ENABLED PollWriteTargets)
  /\ pollPc = "loaded" => ENABLED PollWriteConfig
  /\ \A j \in 1..Len(jobs) : jobs[j].pc = "snap" => ENABLED JobSnapshot(j)
  /\ ~cfgWrite =>
       /\ schedPc = "new" => ENABLED MainNewScheduler
       /\ \A id \in TaskIds :
            tasks[id[1]][id[2]].pc = "spawned" => ENABLED ProbeBegin(id[1], id[2])

\* C18 witness: the poller holds the config guard and is about to take the
\* targets guard while an Icmp task waits to read the config and a job is
\* about to read the targets.
C18_Witness ==
  /\ cfgWrite
  /\ \E id \in TaskIds :
       /\ tasks[id[1]][id[2]].pc = "spawned"
       /\ tasks[id[1]][id[2]].target.kind = "Icmp"
  /\ \E j \in 1..Len(jobs) : jobs[j].pc = "snap"

\* C19: whenever the poller does not hold the write guard of config, the
\* shared target list is the targets field of the shared config; the two
\* differ only inside the poller's critical section
C19_TargetsFollowConfig ==
  /\ ~cfgWrite => targets = config.targets
  /\ targets # config.targets => (cfgWrite /\ pollPc = "targets")
  /\ pollPc = "targets" => (cfgWrite /\ config = newCfg)

\* C19 witness: a reload has replaced config and target list, after a job
\* had taken its snapshot of the earlier list.
C19_Witness ==
  /\ ~cfgWrite
  /\ lastLoad = "ok"
  /\ pollPc = "sleep"
  /\ targets = config.targets
  /\ \E j \in 1..Len(jobs) :
       jobs[j].pc = "done" /\ jobs[j].snapshot # targets

\* C20: once the Scheduler is constructed its interval never changes, and
\* every deadline is the one before plus that interval, whatever
\* probe_interval_ms the shared config holds by then
C20_IntervalFixed ==
  [][/\ schedPc \in {"run", "loop", "sleep"} => interval' = interval
     /\ (schedPc = "loop" /\ schedPc' = "sleep") => next' = next + interval
    ]_vars

\* C20 witness: a reload has changed probe_interval_ms and the target list
\* between two ticks; the later tick read the new list, and the two ticks
\* are still one startup interval apart.
C20_Witness ==
  /\ Len(jobs) = MaxJobs
  /\ lastLoad = "ok"
  /\ config.probe_interval_ms # interval
  /\ jobs[MaxJobs].pc = "done"
  /\ jobs[MaxJobs].snapshot = config.targets
  /\ jobs[1].pc = "done"
  /\ jobs[1].snapshot # config.targets
  /\ jobs[MaxJobs].tick - jobs[1].tick = (MaxJobs - 1) * interval

\* C21: the sink's frame: a failed probe adds one to the counter of its own
\* (target, probe_type) pair and changes no gauge (so the pair's gauge keeps
\* the last successful value), no other counter and no histogram; a
\* successful probe sets the gauge of its own pair to the value it measured,
\* whatever the gauge held, and changes no other gauge and no counter
C21_Key(t) == << t.target.name, ObserveLabel(t.target.kind) >>
C21_SetOnly(g, key, v) ==
  [k \in DOMAIN g \cup {key} |-> IF k = key THEN v ELSE g[k]]
C21_AddOnly(c, key) ==
  [k \in DOMAIN c \cup {key} |->
     IF k = key THEN (IF k \in DOMAIN c THEN c[k] ELSE 0) + 1 ELSE c[k]]
C21_SinkFrame ==
  \A id \in TaskIds :
    LET t == tasks[id[1]][id[2]] IN
      t.pc = "probing" =>
        /\ \A d \in Latencies :
             ENABLED (/\ ProbeOk(id[1], id[2], d)
                      /\ gauge' = C21_SetOnly(gauge, C21_Key(t), LatencyMs(d))
                      /\ counter' = counter)
        /\ ENABLED (/\ ProbeErr(id[1], id[2])
                    /\ counter' = C21_AddOnly(counter, C21_Key(t))
                    /\ gauge' = gauge
                    /\ histogram' = histogram)

\* C21 witness: over two overlapping ticks the first target succeeded twice
\* (its gauge was written twice, its counter never), the second succeeded
\* once and failed once (its gauge is still set, its counter is 1).
C21_Witness ==
  /\ Len(tasks) = MaxJobs
  /\ \A j \in 1..MaxJobs :
       /\ Len(tasks[j]) = MaxTargets
       /\ \A p \in 1..MaxTargets : tasks[j][p].target = tasks[1][p].target
  /\ tasks[1][1].outcome = "ok" /\ tasks[MaxJobs][1].outcome = "ok"
  /\ tasks[1][2].outcome = "ok" /\ tasks[MaxJobs][2].outcome = "err"
  /\ C21_Key(tasks[1][1]) \in DOMAIN gauge \ DOMAIN counter
  /\ C21_Key(tasks[1][2]) \in DOMAIN gauge
  /\ counter[C21_Key(tasks[1][2])] = 1
====
